---- MODULE Spec2Model ----
(***************************************************************************)
(* Model of the otelbin Editor component (src/unnamed/part_000) and of the *)
(* short-link middleware (src/packages/otelbin/src/middleware.ts).         *)
(*                                                                         *)
(* Three specifications share the variables:                               *)
(*   Spec        the Editor's configuration / validation / URL data flow   *)
(*   SpecLayout  the Editor's view mode and panel width                    *)
(*   SpecMw      the short-link request handler                            *)
(***************************************************************************)
EXTENDS Integers, Sequences, FiniteSets, TLC

VARIABLES
    mounted,        \* the first render's effects have run
    editorReady,    \* editorRef && monacoRef
    currentConfig,  \* useState<string>(config)
    config,         \* URL-decoded text returned by useUrlState
    getLink,        \* identity of the link builder returned by useUrlState
    history,        \* window.history: the navigation stack, newest last
    serverEnabled,  \* useServerSideValidationEnabled()
    serverResult,   \* useServerSideValidation(): <<>> or <<[for, error]>>
    inFlight,       \* texts with a server-side validation still in flight
    totalErrors,    \* the memoised totalValidationErrors
    validatedOn,    \* <<>> or <<t>>: the text the validation routine ran on
    configRestore,  \* localStorage "config-restore"
    tracked,        \* number of "Opened with non-default config" events
    viewMode,       \* useViewMode().viewMode
    width,          \* useState(width)
    storedWidth,    \* localStorage "width": <<>> or <<string>>
    panelWidth,     \* style.width of the editor panel in the current render
    pristine,       \* no interaction since the Editor was loaded
    request,        \* the request handed to handleShortLinkRequest
    response        \* its response

vars == <<mounted, editorReady, currentConfig, config, getLink, history,
          serverEnabled, serverResult, inFlight, totalErrors, validatedOn,
          configRestore, tracked, viewMode, width, storedWidth,
          panelWidth, pristine, request, response>>

editorVars == <<mounted, editorReady, currentConfig, config, getLink, history,
                serverEnabled, serverResult, inFlight, totalErrors,
                validatedOn, configRestore, tracked>>
layoutVars == <<viewMode, width, storedWidth, panelWidth, pristine>>
mwVars     == <<request, response>>

----------------------------------------------------------------------------
(* Bounds *)
MaxHistory      == 3    \* longest navigation stack explored
MaxLinkVersions == 1    \* how often the link builder changes identity
MaxInFlight     == 1    \* server-side validations in flight at once
MaxWidthSteps   == 20   \* panel widths explored: 0, WidthStep, ...
WidthStep       == 55
MaxPathLen      == 7    \* longest request path explored

----------------------------------------------------------------------------
(* Configuration texts.  Fallback is editorBinding.fallback; the others   *)
(* are one text per outcome of the validation collaborators.              *)
Fallback    == "dflt"
Placeholder == "{}"
Texts       == {"", Fallback, "bad", "ajv", "srv"}
YamlBad     == {"bad"}   \* texts the local YAML parse rejects
AjvBad      == {"ajv"}   \* texts the local schema check rejects
ServerBad   == {"srv"}   \* texts only the server-side check rejects
NoItem      == "<null>"  \* localStorage.getItem(...) === null

NoResult    == <<>>
EmptyReport == [yamlError |-> <<>>, ajvErrors |-> <<>>]   \* {}

(* validateOtelCollectorConfigurationAndSetMarkers: local YAML and schema *)
(* checks, merged with the server-side result when that is enabled.       *)
validateOtelCollectorConfigurationAndSetMarkers(text, enabled, srv) ==
    LET localAjv  == IF text \in AjvBad THEN <<"schema">> ELSE <<>>
        serverAjv == IF enabled /\ Len(srv) = 1 /\ srv[1].error
                     THEN <<"server">> ELSE <<>>
    IN [yamlError |-> IF text \in YamlBad THEN <<"yaml">> ELSE <<>>,
        ajvErrors |-> <<localAjv \o serverAjv>>]

(* The server-side validator's verdict on a text. *)
ServerValidate(t) == [for |-> t, error |-> t \in ServerBad]

(* variant: a server result is used only when it is for the current text *)
totalValidationErrors_DropStale(ready, text, enabled, srv) ==
    IF ready
    THEN validateOtelCollectorConfigurationAndSetMarkers(text, enabled,
            IF Len(srv) = 1 /\ srv[1].for = text THEN srv ELSE NoResult)
    ELSE EmptyReport

(* useMemo(() => ..., [currentConfig, editorRef, monacoRef, ...]) *)
totalValidationErrors(ready, text, enabled, srv) ==
    IF ready
    THEN validateOtelCollectorConfigurationAndSetMarkers(text, enabled, srv)
    ELSE EmptyReport

(* the text the routine was run on by the memo, if it was run *)
ValidationRanOn(ready, text) == IF ready THEN <<text>> ELSE <<>>

(* variant: the schema-level errors are not looked at *)
isValidConfig_YamlOnly(report) == Len(report.yamlError) = 0

(* yamlError == null && (ajvErrors?.length ?? 0) === 0 *)
isValidConfig(report) ==
    /\ Len(report.yamlError) = 0
    /\ (IF Len(report.ajvErrors) = 0 THEN 0 ELSE Len(report.ajvErrors[1])) = 0

(* variant: the two operands of the gate are swapped *)
FlowValue_Swapped(valid, text) ==
    IF valid /\ text # "" THEN Placeholder ELSE text

(* (isValidConfig && currentConfig) || "{}" : the empty string is falsy *)
FlowValue(valid, text) == IF valid /\ text # "" THEN text ELSE Placeholder

(* the `value` prop the Diagram Surface receives in the current render *)
FlowProp == FlowValue(isValidConfig(totalErrors), currentConfig)

(* window.history.pushState(null, "", getLink({config: newConfig})) *)
onChangeConfig(hist, newConfig) == Append(hist, [config |-> newConfig])

(* useEffect(() => { if (currentConfig !== config) onChangeConfig(...) },  *)
(*           [onChangeConfig, currentConfig, config])                      *)
DivergenceEffect(run, cur, cfg, hist) ==
    IF run /\ cur # cfg THEN onChangeConfig(hist, cur) ELSE hist

(* variant: the effect has no dependency list and runs on every render *)
AnalyticsEffect_EveryRender(firstRender, cfg, n) ==
    IF cfg # Fallback THEN n + 1 ELSE n

(* useEffect(() => { if (config !== fallback) track(...) }, []) *)
AnalyticsEffect(firstRender, cfg, n) ==
    IF firstRender /\ cfg # Fallback THEN n + 1 ELSE n

(* const configType = selectConfigType(value ?? ""); (configType) ?? "" *)
SelectedText(sel) == IF sel = NoItem THEN "" ELSE sel

----------------------------------------------------------------------------
(* Panel width and view mode *)
DefaultWidth == 440
ViewModes    == {"both", "code", "pipeline"}
Widths       == {k * WidthStep : k \in 0..MaxWidthSteps}
DigitChars   == <<"0", "1", "2", "3", "4", "5", "6", "7", "8", "9">>

(* String(n) and `${n}` for a non-negative integer: its decimal digits *)
RECURSIVE NumberToString(_)
NumberToString(n) ==
    IF n < 10 THEN <<DigitChars[n + 1]>>
    ELSE NumberToString(n \div 10) \o <<DigitChars[(n % 10) + 1]>>

(* Number(s) for a string of decimal digits *)
RECURSIVE StringToNumber(_)
StringToNumber(s) ==
    IF Len(s) = 0 THEN 0
    ELSE 10 * StringToNumber(SubSeq(s, 1, Len(s) - 1))
         + (CHOOSE d \in 0..9 : DigitChars[d + 1] = s[Len(s)])

(* useState(Number(localStorage.getItem("width") ?? 440)) *)
InitialWidth(stored) ==
    IF Len(stored) = 0 THEN DefaultWidth ELSE StringToNumber(stored[1])

(* variant: the width is set in memory only *)
onWidthChange_NotPersisted(newWidth, stored) ==
    [stored |-> stored, width |-> newWidth]

(* localStorage.setItem("width", String(newWidth)); setWidth(newWidth) *)
onWidthChange(newWidth, stored) ==
    [stored |-> <<NumberToString(newWidth)>>, width |-> newWidth]

(* variant: the "code" and "pipeline" cases are exchanged *)
calculateViewWidth_Exchanged(mode, w) ==
    CASE mode = "code"     -> <<"0", "p", "x">>
      [] mode = "pipeline" -> <<"1", "0", "0", "%">>
      [] OTHER             -> NumberToString(w) \o <<"p", "x">>

calculateViewWidth(mode, w) ==
    CASE mode = "code"     -> <<"1", "0", "0", "%">>
      [] mode = "pipeline" -> <<"0", "p", "x">>
      [] OTHER             -> NumberToString(w) \o <<"p", "x">>

----------------------------------------------------------------------------
(* Short-link middleware *)
PathChars == {"/", "s", "a"}
Paths     == {p \in UNION {[1..k -> PathChars] : k \in 1..MaxPathLen} :
                 p[1] = "/"}
ShortLinkPrefix == <<"/", "s", "/">>
PreviewSuffix   == <<"/", "p", "r", "e", "v", "i", "e", "w">>

\* config.matcher: the path starts with "/s/", anything may follow
Matcher(path) == Len(path) >= 3 /\ SubSeq(path, 1, 3) = ShortLinkPrefix

(* positions where /\/s\/([^/]+)$/ matches: "/s/", then one or more       *)
(* characters other than "/" up to the end of the path                    *)
ShortLinkMatches(path) ==
    {i \in 1..Len(path) :
        /\ i + 3 <= Len(path)
        /\ SubSeq(path, i, i + 2) = ShortLinkPrefix
        /\ \A j \in (i + 3)..Len(path) : path[j] # "/"}

handleShortLinkRequest(path, bot) ==
    LET ms == ShortLinkMatches(path)
    IN IF ms # {} /\ bot
       THEN LET i == CHOOSE m \in ms : \A n \in ms : m <= n
                shortLinkID == SubSeq(path, i + 3, Len(path))
            IN [kind |-> "rewrite",
                url  |-> ShortLinkPrefix \o shortLinkID \o PreviewSuffix]
       ELSE [kind |-> "next", url |-> path]

----------------------------------------------------------------------------
(* One render pass after a state change: the memo is recomputed and the   *)
(* effects whose dependencies changed are run.                            *)
Render(ready, cur, cfg, link, srv) ==
    /\ totalErrors' = totalValidationErrors(ready, cur, serverEnabled, srv)
    /\ validatedOn' = ValidationRanOn(ready, cur)
    /\ configRestore' = cfg
    /\ tracked' = AnalyticsEffect(~mounted, config, tracked)
    /\ LET run  == ~mounted \/ <<link, cur, cfg>> # <<getLink, currentConfig, config>>
           hist == DivergenceEffect(run, cur, cfg, history)
       IN /\ Len(hist) <= MaxHistory
          /\ history' = hist

InitEditor ==
    /\ mounted = FALSE
    /\ editorReady = FALSE
    /\ config \in Texts
    /\ currentConfig = config
    /\ getLink = 0
    /\ history = <<[config |-> config]>>
    /\ serverEnabled \in BOOLEAN
    /\ serverResult = NoResult
    /\ inFlight = {}
    /\ totalErrors = totalValidationErrors(FALSE, config, serverEnabled, NoResult)
    /\ validatedOn = ValidationRanOn(FALSE, config)
    /\ configRestore = NoItem
    /\ tracked = 0

InitLayoutIdle ==
    /\ viewMode = "both"
    /\ storedWidth = <<>>
    /\ width = InitialWidth(storedWidth)
    /\ panelWidth = calculateViewWidth(viewMode, width)
    /\ pristine = TRUE

InitMwIdle ==
    /\ request = <<>>
    /\ response = <<>>

Init == InitEditor /\ InitLayoutIdle /\ InitMwIdle

(* the effects of the first render *)
Mount ==
    /\ ~mounted
    /\ mounted' = TRUE
    /\ Render(editorReady, currentConfig, config, getLink, serverResult)
    /\ UNCHANGED <<editorReady, currentConfig, config, getLink, serverEnabled,
                   serverResult, inFlight>>

(* onMount={editorDidMount}: the editor and Monaco handles become ready *)
EditorDidMount ==
    /\ mounted /\ ~editorReady
    /\ editorReady' = TRUE
    /\ Render(TRUE, currentConfig, config, getLink, serverResult)
    /\ UNCHANGED <<mounted, currentConfig, config, getLink, serverEnabled,
                   serverResult, inFlight>>

(* handleEditorChange; sel is what selectConfigType returns for the value *)
HandleEditorChange(sel) ==
    /\ mounted
    /\ currentConfig' = SelectedText(sel)
    /\ currentConfig' # currentConfig
    /\ Render(editorReady, currentConfig', config, getLink, serverResult)
    /\ UNCHANGED <<mounted, editorReady, config, getLink, serverEnabled,
                   serverResult, inFlight>>

(* useUrlState re-reads the URL of the current history entry *)
UrlSync ==
    /\ mounted
    /\ config' = history[Len(history)].config
    /\ config' # config
    /\ Render(editorReady, currentConfig, config', getLink, serverResult)
    /\ UNCHANGED <<mounted, editorReady, currentConfig, getLink, serverEnabled,
                   serverResult, inFlight>>

(* useUrlState returns a new getLink, so onChangeConfig is rebuilt *)
LinkBuilderChange ==
    /\ mounted
    /\ getLink < MaxLinkVersions
    /\ getLink' = getLink + 1
    /\ Render(editorReady, currentConfig, config, getLink', serverResult)
    /\ UNCHANGED <<mounted, editorReady, currentConfig, config, serverEnabled,
                   serverResult, inFlight>>

(* useServerSideValidation starts a validation of the current text *)
ServerRequest ==
    /\ mounted
    /\ currentConfig \notin inFlight
    /\ Cardinality(inFlight) < MaxInFlight
    /\ inFlight' = inFlight \cup {currentConfig}
    /\ UNCHANGED <<mounted, editorReady, currentConfig, config, getLink,
                   history, serverEnabled, serverResult, totalErrors,
                   validatedOn, configRestore, tracked>>

(* a server-side validation resolves; nothing checks which text it was for *)
ServerResolve(t) ==
    /\ mounted
    /\ t \in inFlight
    /\ inFlight' = inFlight \ {t}
    /\ serverResult' = <<ServerValidate(t)>>
    /\ Render(editorReady, currentConfig, config, getLink, serverResult')
    /\ UNCHANGED <<mounted, editorReady, currentConfig, config, getLink,
                   serverEnabled>>

Next ==
    \/ Mount /\ UNCHANGED <<layoutVars, mwVars>>
    \/ EditorDidMount /\ UNCHANGED <<layoutVars, mwVars>>
    \/ (\E sel \in Texts \cup {NoItem} : HandleEditorChange(sel))
          /\ UNCHANGED <<layoutVars, mwVars>>
    \/ UrlSync /\ UNCHANGED <<layoutVars, mwVars>>
    \/ LinkBuilderChange /\ UNCHANGED <<layoutVars, mwVars>>
    \/ ServerRequest /\ UNCHANGED <<layoutVars, mwVars>>
    \/ (\E t \in Texts : ServerResolve(t)) /\ UNCHANGED <<layoutVars, mwVars>>

Spec == Init /\ [][Next]_vars

----------------------------------------------------------------------------
(* View mode and panel width *)

(* setViewMode(m) from the view-mode context *)
SetViewMode(m) ==
    /\ m # viewMode
    /\ viewMode' = m
    /\ panelWidth' = calculateViewWidth(m, width)
    /\ pristine' = FALSE
    /\ UNCHANGED <<width, storedWidth>>

(* the ResizeBar, rendered only in the "both" mode, calls onWidthChange *)
Resize(newWidth) ==
    /\ viewMode = "both"
    /\ LET r == onWidthChange(newWidth, storedWidth)
       IN /\ storedWidth' = r.stored
          /\ width' = r.width
    /\ panelWidth' = calculateViewWidth(viewMode, width')
    /\ pristine' = FALSE
    /\ UNCHANGED viewMode

(* a fresh load of the Editor: the state is rebuilt from localStorage *)
Reload ==
    /\ ~pristine
    /\ viewMode' \in ViewModes
    /\ width' = InitialWidth(storedWidth)
    /\ panelWidth' = calculateViewWidth(viewMode', width')
    /\ pristine' = TRUE
    /\ UNCHANGED storedWidth

NextLayout ==
    \/ (\E m \in ViewModes : SetViewMode(m)) /\ UNCHANGED <<editorVars, mwVars>>
    \/ (\E w \in Widths : Resize(w)) /\ UNCHANGED <<editorVars, mwVars>>
    \/ Reload /\ UNCHANGED <<editorVars, mwVars>>

InitEditorIdle ==
    /\ mounted = FALSE
    /\ editorReady = FALSE
    /\ config = Fallback
    /\ currentConfig = config
    /\ getLink = 0
    /\ history = <<[config |-> config]>>
    /\ serverEnabled = FALSE
    /\ serverResult = NoResult
    /\ inFlight = {}
    /\ totalErrors = EmptyReport
    /\ validatedOn = <<>>
    /\ configRestore = NoItem
    /\ tracked = 0

InitLayout == InitEditorIdle /\ InitLayoutIdle /\ InitMwIdle

SpecLayout == InitLayout /\ [][NextLayout]_vars

----------------------------------------------------------------------------
(* Short-link middleware: one request at a time, no state between them *)
HandleShortLinkRequest(path, bot) ==
    /\ Matcher(path)
    /\ request' = <<[path |-> path, bot |-> bot]>>
    /\ response' = <<handleShortLinkRequest(path, bot)>>

NextMw ==
    (\E path \in Paths, bot \in BOOLEAN : HandleShortLinkRequest(path, bot))
        /\ UNCHANGED <<editorVars, layoutVars>>

InitMw == InitEditorIdle /\ InitLayoutIdle /\ InitMwIdle

SpecMw == InitMw /\ [][NextMw]_vars

----------------------------------------------------------------------------
(* Properties *)

HasYamlError(report) == Len(report.yamlError) > 0
HasAjvErrors(report) ==
    Len(report.ajvErrors) = 1 /\ Len(report.ajvErrors[1]) > 0
PassesValidation(report) == ~HasYamlError(report) /\ ~HasAjvErrors(report)

(* C1: in every state, also before the editor and Monaco handles are      *)
(* ready, the value the Diagram Surface receives is the placeholder "{}"  *)
(* or a text the validation routine was run on and found no yamlError and *)
(* no ajvErrors in.                                                       *)
C1_ValidatedOrPlaceholder ==
    \/ FlowProp = Placeholder
    \/ /\ validatedOn = <<FlowProp>>
       /\ PassesValidation(totalErrors)

(* C2: when the report has a yamlError or a non-empty ajvErrors, the      *)
(* Diagram Surface receives exactly "{}" and not the raw text.            *)
C2_InvalidGetsPlaceholder ==
    (HasYamlError(totalErrors) \/ HasAjvErrors(totalErrors))
        => /\ FlowProp = Placeholder
           /\ FlowProp # currentConfig

C2_Witness ==
    /\ editorReady
    /\ currentConfig = "ajv"
    /\ HasAjvErrors(totalErrors)
    /\ FlowProp = Placeholder

(* C3 as stated: every text that passes validation, the empty string      *)
(* included, reaches the Diagram Surface unmodified and not as "{}".      *)
C3_ValidPassedThrough ==
    PassesValidation(totalErrors)
        => FlowProp = currentConfig /\ FlowProp # Placeholder

(* C3 amended: a non-empty text that passes validation reaches the        *)
(* Diagram Surface unmodified; the empty string reaches it as "{}".       *)
C3_NonEmptyValidPassedThrough ==
    /\ (PassesValidation(totalErrors) /\ currentConfig # "")
          => FlowProp = currentConfig /\ FlowProp # Placeholder
    /\ currentConfig = "" => FlowProp = Placeholder

C3_Witness ==
    /\ editorReady
    /\ validatedOn = <<"srv">>
    /\ PassesValidation(totalErrors)
    /\ FlowProp = "srv"

(* C4: a history update is issued exactly when the store's text and the   *)
(* URL-decoded text come to differ: one update carrying the store's text  *)
(* for each change of the pair, none while they are equal, and none in a  *)
(* step that changes neither of them (such as a change of the link        *)
(* builder behind onChangeConfig).                                        *)
C4_OneUpdatePerDivergence ==
    [][ LET differ  == currentConfig' # config'
            changed == <<currentConfig', config'>> # <<currentConfig, config>>
        IN /\ ~differ => history' = history
           /\ (differ /\ changed)
                 => history' = Append(history, [config |-> currentConfig'])
           /\ (differ /\ ~changed) => history' = history ]_vars

(* C5: URL updates replace the current history entry: the navigation      *)
(* stack keeps the single entry it had before the first text change.      *)
C5_StackLengthKept == Len(history) = 1

(* C9: during one load the analytics event has fired once if the          *)
(* initially loaded configuration differs from the fallback, and never    *)
(* otherwise; edits, URL updates and validation runs add none.            *)
C9_TrackedOnce ==
    tracked = IF mounted /\ history[1].config # Fallback THEN 1 ELSE 0

C9_Witness ==
    /\ tracked = 1
    /\ Len(history) > 1
    /\ config # history[1].config
    /\ Len(serverResult) = 1
    /\ editorReady

(* C10: a server-side result is merged into the report whatever text it   *)
(* was produced for: once the handles are ready and server-side           *)
(* validation is enabled, a failing server result keeps the report in     *)
(* error and the diagram on the placeholder, also after the text changed. *)
C10_StaleResultMerged ==
    (editorReady /\ serverEnabled /\ Len(serverResult) = 1
                 /\ serverResult[1].error)
        => HasAjvErrors(totalErrors) /\ FlowProp = Placeholder

C10_Witness ==
    /\ editorReady /\ serverEnabled
    /\ Len(serverResult) = 1
    /\ serverResult[1].for # currentConfig
    /\ serverResult[1].error
    /\ currentConfig = Fallback
    /\ validatedOn = <<currentConfig>>
    /\ HasAjvErrors(totalErrors)
    /\ FlowProp = Placeholder

(* C7: the panel width is "0px" in the diagram-only mode, "100%" in the   *)
(* code-only mode and the last persisted width in pixels in the split     *)
(* mode (440 when none was persisted); a change of the view mode leaves   *)
(* the width, in memory and persisted, as it was.                         *)
C7_PanelWidth ==
    [][ /\ viewMode' = "pipeline" => panelWidth' = <<"0", "p", "x">>
        /\ viewMode' = "code" => panelWidth' = <<"1", "0", "0", "%">>
        /\ viewMode' = "both" =>
              panelWidth' = (IF Len(storedWidth') = 0
                             THEN <<"4", "4", "0">>
                             ELSE storedWidth'[1]) \o <<"p", "x">>
        /\ viewMode' # viewMode =>
              width' = width /\ storedWidth' = storedWidth ]_vars

C7_Witness ==
    /\ viewMode = "pipeline"
    /\ panelWidth = <<"0", "p", "x">>
    /\ Len(storedWidth) = 1
    /\ width # DefaultWidth
    /\ ~pristine

(* C8: a resize writes the width to localStorage and to memory together,  *)
(* so a fresh load starts from the width of the last resize, and from 440 *)
(* only when no resize was persisted.                                     *)
C8_WidthReadBack ==
    /\ InitialWidth(storedWidth) = width
    /\ Len(storedWidth) = 1 => storedWidth[1] = NumberToString(width)
    /\ Len(storedWidth) = 0 => width = DefaultWidth

C8_Witness ==
    /\ pristine
    /\ Len(storedWidth) = 1
    /\ Len(storedWidth[1]) > 1
    /\ width # DefaultWidth

(* C6: a request is rewritten if and only if its path is exactly /s/<id>  *)
(* with one non-empty <id> free of "/" and the requester is a bot; the    *)
(* target is /s/<id>/preview with the same <id>; every other request      *)
(* passes through unchanged.                                              *)
ExactShortLink(path) ==
    /\ Len(path) >= 4
    /\ SubSeq(path, 1, 3) = ShortLinkPrefix
    /\ \A j \in 4..Len(path) : path[j] # "/"

C6_RewriteIffExactShortLink ==
    Len(request) = 1 =>
        LET req == request[1]
            res == response[1]
        IN /\ res.kind = "rewrite" <=> (ExactShortLink(req.path) /\ req.bot)
           /\ res.kind = "rewrite" => res.url = req.path \o PreviewSuffix
           /\ res.kind = "next" => res.url = req.path

====
